---------------------------- MODULE Spec2Model ----------------------------
(***************************************************************************)
(* A model of the chandas prosody engine (src/chandas.py): normalisation,  *)
(* segmentation, the two syllable scanners, pada splitting, the weight     *)
(* pass and the three-tier meter matcher.                                  *)
(*                                                                         *)
(* Text is a sequence of character tokens; each token stands for one code  *)
(* point of the source's character sets.  Confidence values are kept in    *)
(* hundredths (100 = 1.0, 10 = 0.1), the resolution round(x, 2) leaves.    *)
(***************************************************************************)
EXTENDS Integers, Sequences, FiniteSets, TLC

VARIABLES pc, text, prefer_script, norm, script, segments, seg_sylls,
          padas_sylls, padas_info, padas_counts, result, scan, closest

vars == <<pc, text, prefer_script, norm, script, segments, seg_sylls,
          padas_sylls, padas_info, padas_counts, result, scan, closest>>

(***************************************************************************)
(* Bounds of the model.                                                    *)
(***************************************************************************)
MaxExtraPadas == 1
MaxText == 3
MaxScan == 4
MaxOnset == 2
MaxPadaLen == 2
MaxLineSylls == 9

(***************************************************************************)
(* Generic helpers.                                                        *)
(***************************************************************************)
Abs(x) == IF x < 0 THEN -x ELSE x

Min2(a, b) == IF a < b THEN a ELSE b

Max2(a, b) == IF a > b THEN a ELSE b

RECURSIVE SumSeq(_)
SumSeq(q) == IF q = <<>> THEN 0 ELSE Head(q) + SumSeq(Tail(q))

RECURSIVE MaxSeq(_)
MaxSeq(q) == IF Len(q) = 1 THEN q[1] ELSE Max2(Head(q), MaxSeq(Tail(q)))

CountEqual(q, v) == Cardinality({k \in 1..Len(q) : q[k] = v})

CountAtMost(q, b) == Cardinality({k \in 1..Len(q) : q[k] <= b})

Repeat(x, k) == [j \in 1..k |-> x]

\* Python slice q[a:b] with 0-based, clipped bounds.
Slice(q, a, b) ==
    LET lo == Min2(a, Len(q))
        hi == Min2(b, Len(q))
    IN  IF hi <= lo THEN <<>> ELSE [j \in 1..(hi - lo) |-> q[lo + j]]

RECURSIVE SeqsUpTo(_, _)
SeqsUpTo(S, k) ==
    IF k = 0 THEN {<<>>}
    ELSE LET shorter == SeqsUpTo(S, k - 1)
         IN  shorter \cup {Append(q, x) : q \in {r \in shorter : Len(r) = k - 1}, x \in S}

\* Variant: compares the first component only.
KeyLessFirstOnly(a, b) ==
    IF a = <<>> THEN FALSE ELSE Head(a) < Head(b)

\* Lexicographic "less than" on equal-length tuples of integers (Python tuple order).
RECURSIVE KeyLess(_, _)
KeyLess(a, b) ==
    IF a = <<>> THEN FALSE
    ELSE IF Head(a) # Head(b) THEN Head(a) < Head(b)
    ELSE KeyLess(Tail(a), Tail(b))

\* Variant: an unstable insertion, which puts an item before its equals.
RECURSIVE InsertBeforeEquals(_, _)
InsertBeforeEquals(x, sorted) ==
    IF sorted = <<>> THEN <<x>>
    ELSE IF ~KeyLess(Head(sorted).key, x.key) THEN <<x>> \o sorted
    ELSE <<Head(sorted)>> \o InsertBeforeEquals(x, Tail(sorted))

\* list.sort(key=...): a stable ascending sort.  Items are records with a field key.
RECURSIVE InsertStable(_, _)
InsertStable(x, sorted) ==
    IF sorted = <<>> THEN <<x>>
    ELSE IF KeyLess(x.key, Head(sorted).key) THEN <<x>> \o sorted
    ELSE <<Head(sorted)>> \o InsertStable(x, Tail(sorted))

RECURSIVE StableSort(_)
StableSort(q) ==
    IF q = <<>> THEN <<>>
    ELSE InsertStable(q[Len(q)], StableSort(SubSeq(q, 1, Len(q) - 1)))

(***************************************************************************)
(* The meter table.                                                        *)
(***************************************************************************)
CHANDAS_SAPT ==
    << [name |-> "Gayatri",   padas |-> 3, syllables_per_pada |-> 8],
       [name |-> "Ushnih",    padas |-> 4, syllables_per_pada |-> 7],
       [name |-> "Anushtubh", padas |-> 4, syllables_per_pada |-> 8],
       [name |-> "Brihati",   padas |-> 4, syllables_per_pada |-> 9],
       [name |-> "Pankti",    padas |-> 4, syllables_per_pada |-> 10],
       [name |-> "Trishtubh", padas |-> 4, syllables_per_pada |-> 11],
       [name |-> "Jagati",    padas |-> 4, syllables_per_pada |-> 12] >>

FORCE_CONFIDENCE_ALWAYS_ONE == FALSE

None == [match_type |-> "None"]

Truthy(x) == x # None

(***************************************************************************)
(* Confidence model.  base = 0.6*exact_ratio + 0.3*within1_ratio +         *)
(* 0.1*max(0, 1 - avg_dev/max(1, target_len)); in hundredths it is the     *)
(* rational num/den below.  round(., 2) takes the nearest hundredth; when  *)
(* the exact value lies halfway between two hundredths the floating-point  *)
(* error of the sum decides the direction, so the direction is the         *)
(* parameter tie (0 = down, 1 = up).                                       *)
(***************************************************************************)
RoundHundredths(num, den, tie) ==
    LET q == num \div den
        r == num % den
    IN  IF 2 * r > den THEN q + 1
        ELSE IF 2 * r = den THEN q + tie
        ELSE q

\* Variant: the result is not clamped from below.
confidence_without_floor(target_len, deviations, tie) ==
    IF deviations = <<>> THEN 50
    ELSE LET n == Len(deviations)
             exact_n == CountEqual(deviations, 0)
             within1_n == CountAtMost(deviations, 1)
             total == SumSeq(deviations)
             t == Max2(1, target_len)
             den == n * t
             num == 60 * exact_n * t + 30 * within1_n * t + 10 * Max2(0, den - total)
         IN  Min2(100, RoundHundredths(num, den, tie))

confidence_from_deviations(target_len, deviations, tie) ==
    IF deviations = <<>> THEN 50
    ELSE LET n == Len(deviations)
             exact_n == CountEqual(deviations, 0)
             within1_n == CountAtMost(deviations, 1)
             total == SumSeq(deviations)
             t == Max2(1, target_len)
             den == n * t
             num == 60 * exact_n * t + 30 * within1_n * t + 10 * Max2(0, den - total)
             base == RoundHundredths(num, den, tie)
         IN  Min2(100, Max2(10, base))

(***************************************************************************)
(* Meter identification.                                                   *)
(***************************************************************************)
CandidateScore(cand, padas_syll_counts) ==
    LET total_padas == Len(padas_syll_counts)
        target_padas == cand.padas
        target_len == cand.syllables_per_pada
        pad_penalty == Abs(total_padas - target_padas) * 4
        k == Min2(total_padas, target_padas)
        prefix == [j \in 1..k |-> Abs(padas_syll_counts[j] - target_len)]
        diffs == IF total_padas < target_padas
                 THEN prefix \o Repeat(target_len, target_padas - total_padas)
                 ELSE prefix
        score == pad_penalty + SumSeq(diffs)
    IN  [name |-> cand.name,
         target_padas |-> target_padas,
         target_len |-> target_len,
         score |-> score,
         key |-> <<score>>,
         deviations |-> IF diffs # <<>> THEN diffs ELSE Repeat(target_len, target_padas)]

best_meter_match(padas_syll_counts, tie) ==
    LET candidates == [c \in 1..Len(CHANDAS_SAPT) |->
                          CandidateScore(CHANDAS_SAPT[c], padas_syll_counts)]
        best == StableSort(candidates)[1]
        conf == confidence_from_deviations(best.target_len, best.deviations, tie)
    IN  [name |-> best.name,
         target_padas |-> best.target_padas,
         target_len |-> best.target_len,
         confidence |-> IF FORCE_CONFIDENCE_ALWAYS_ONE THEN 100 ELSE conf,
         match_type |-> "closest",
         deviations |-> best.deviations]

TolerantLabel(tolerance) ==
    CASE tolerance = 0 -> "tolerant(+-0)"
      [] tolerance = 1 -> "tolerant(+-1)"

\* Variant: signed deviations (count - target) instead of absolute ones.
RECURSIVE CollectMatchesSigned(_, _, _)
CollectMatchesSigned(c, padas_syll_counts, tolerance) ==
    IF c > Len(CHANDAS_SAPT) THEN <<>>
    ELSE LET cand == CHANDAS_SAPT[c]
             target == cand.syllables_per_pada
             deviations == [j \in 1..Len(padas_syll_counts) |->
                               padas_syll_counts[j] - target]
             rest == CollectMatchesSigned(c + 1, padas_syll_counts, tolerance)
         IN  IF Len(padas_syll_counts) # cand.padas THEN rest
             ELSE IF deviations = <<>> THEN rest
             ELSE IF MaxSeq(deviations) <= tolerance
                  THEN << [key |-> <<MaxSeq(deviations), SumSeq(deviations)>>,
                           max_dev |-> MaxSeq(deviations),
                           cand |-> cand,
                           deviations |-> deviations] >> \o rest
             ELSE rest

RECURSIVE CollectMatches(_, _, _)
CollectMatches(c, padas_syll_counts, tolerance) ==
    IF c > Len(CHANDAS_SAPT) THEN <<>>
    ELSE LET cand == CHANDAS_SAPT[c]
             target == cand.syllables_per_pada
             deviations == [j \in 1..Len(padas_syll_counts) |->
                               Abs(padas_syll_counts[j] - target)]
             rest == CollectMatches(c + 1, padas_syll_counts, tolerance)
         IN  IF Len(padas_syll_counts) # cand.padas THEN rest
             ELSE IF deviations = <<>> THEN rest
             ELSE IF MaxSeq(deviations) <= tolerance
                  THEN << [key |-> <<MaxSeq(deviations), SumSeq(deviations)>>,
                           max_dev |-> MaxSeq(deviations),
                           cand |-> cand,
                           deviations |-> deviations] >> \o rest
             ELSE rest

identify_saptachandas(padas_syll_counts, tolerance, tie) ==
    LET matches == CollectMatches(1, padas_syll_counts, tolerance)
    IN  IF matches = <<>> THEN None
        ELSE LET m == StableSort(matches)[1]
                 match_type == IF m.max_dev = 0 THEN "exact" ELSE TolerantLabel(tolerance)
                 conf == IF m.max_dev = 0 THEN 100
                         ELSE confidence_from_deviations(m.cand.syllables_per_pada,
                                                         m.deviations, tie)
             IN  [name |-> m.cand.name,
                  target_padas |-> m.cand.padas,
                  target_len |-> m.cand.syllables_per_pada,
                  deviations |-> m.deviations,
                  match_type |-> match_type,
                  confidence |-> IF FORCE_CONFIDENCE_ALWAYS_ONE THEN 100 ELSE conf]

(***************************************************************************)
(* Characters.  A string is a sequence of the tokens below.                *)
(*   sp, nl            space, line feed                                    *)
(*   comma, us, bar    ",", "_", "|"                                       *)
(*   om, danda, ddanda, avagraha, dev_digit                                *)
(*   dev_a, dev_o      independent vowels (short a, long o)                *)
(*   ka                a consonant letter;  virama                         *)
(*   sign_i, sign_aa   vowel signs (short i, long aa)                      *)
(*   anusvara, visarga                                                     *)
(*   a, i, aa, A_up    Latin vowels a, i, a-macron and capital A           *)
(*   k, h, m           Latin consonants;  mdot, hdot  m/h with dot below   *)
(*   cbindu            combining candrabindu U+0310;  digit  "1"           *)
(***************************************************************************)
OM == "om"

DEV_DANDA == "danda"

DEV_DDANDA == "ddanda"

DEV_VIRAMA == "virama"

DEV_AVAGRAHA == "avagraha"

DEV_INDEP_VOWELS == {"dev_a", "dev_o"}

DEV_LONG_VOWELS == {"dev_o"}

DEV_VOWEL_SIGNS == {"sign_i", "sign_aa"}

DEV_LONG_SIGNS == {"sign_aa"}

DEV_CONSONANTS == {"ka"}

DEV_MARKS == {"anusvara", "visarga"}

LATIN_VOWEL_CHARS == {"a", "i", "aa"}

LATIN_DIPHTHONGS == {<<"a", "i">>}

LATIN_LONG == {"aa"}

DIGRAPHS == {<<"k", "h">>}

LATIN_ANUSVARA == {"mdot"}

LATIN_VISARGA == {"hdot"}

LATIN_CHANDRABINDU == {<<"m", "cbindu">>}

\* The characters "|/\,.;:!?'..." that parse_latin_syllables skips.
LATIN_SKIPPED_PUNCT == {"bar", "comma"}

\* The second operand of the onset test at line 237.
LATIN_ONSET_EXTRA == {"mdot", "hdot"}

\* The code points U+0900..U+097F.
DevBlock == {"om", "danda", "ddanda", "avagraha", "dev_digit", "dev_a", "dev_o", "ka",
             "virama", "sign_i", "sign_aa", "anusvara", "visarga"}

\* \s and str.isspace.
WhiteSpace == {"sp", "nl"}

\* \w: letters, digits and the underscore.
WordChars == {"us", "a", "i", "aa", "A_up", "k", "h", "m", "mdot", "hdot", "digit",
              "om", "avagraha", "dev_digit", "dev_a", "dev_o", "ka"}

\* U+0300..U+036F.
CombiningMarks == {"cbindu"}

\* str.isalpha.
IsAlpha(ch) == ch \in {"a", "i", "aa", "A_up", "k", "h", "m", "mdot", "hdot",
                       "om", "avagraha", "dev_a", "dev_o", "ka"}

\* str.lower.
Lower(ch) == IF ch = "A_up" THEN "a" ELSE ch

LowerStr(t) == [j \in 1..Len(t) |-> Lower(t[j])]

\* t[k] with the source's 0-based index.
At(t, k) == t[k + 1]

(***************************************************************************)
(* normalize_text and split_segments.                                      *)
(***************************************************************************)
RECURSIVE ReplaceChar(_, _, _)
ReplaceChar(t, old, new) ==
    IF t = <<>> THEN <<>>
    ELSE (IF Head(t) = old THEN new ELSE <<Head(t)>>) \o ReplaceChar(Tail(t), old, new)

\* re.sub(r"[class]+", " ", t): every maximal run of class characters becomes one space.
RECURSIVE SubRuns(_, _, _)
SubRuns(t, class, inRun) ==
    IF t = <<>> THEN <<>>
    ELSE IF Head(t) \in class
         THEN (IF inRun THEN <<>> ELSE <<"sp">>) \o SubRuns(Tail(t), class, TRUE)
         ELSE <<Head(t)>> \o SubRuns(Tail(t), class, FALSE)

RECURSIVE LStrip(_)
LStrip(t) == IF t # <<>> /\ Head(t) \in WhiteSpace THEN LStrip(Tail(t)) ELSE t

RECURSIVE RStrip(_)
RStrip(t) ==
    IF t # <<>> /\ t[Len(t)] \in WhiteSpace THEN RStrip(SubSeq(t, 1, Len(t) - 1)) ELSE t

Strip(t) == RStrip(LStrip(t))

AllChars == DevBlock \cup WhiteSpace \cup WordChars \cup CombiningMarks \cup {"bar", "comma"}

\* The characters the pattern at line 72 matches: everything but \w, U+0900..U+097F,
\* U+0300..U+036F, \s, "|" and the two dandas.
Disallowed ==
    AllChars \ (WordChars \cup DevBlock \cup CombiningMarks \cup WhiteSpace
                \cup {"bar", DEV_DANDA, DEV_DDANDA})

\* Variant: underscores left by \w are not replaced.
normalize_text_keeping_underscores(t) ==
    LET t1 == ReplaceChar(t, OM, <<"dev_o", "anusvara">>)
        t2 == ReplaceChar(t1, DEV_DDANDA, <<DEV_DANDA>>)
        t3 == SubRuns(t2, Disallowed, FALSE)
    IN  Strip(SubRuns(t3, WhiteSpace, FALSE))

normalize_text(t) ==
    LET t1 == ReplaceChar(t, OM, <<"dev_o", "anusvara">>)
        t2 == ReplaceChar(t1, DEV_DDANDA, <<DEV_DANDA>>)
        t3 == SubRuns(t2, Disallowed, FALSE)
        t4 == ReplaceChar(t3, "us", <<"sp">>)
    IN  Strip(SubRuns(t4, WhiteSpace, FALSE))

\* The delimiters of split_segments: | danda ddanda \n \r.
SegmentDelims == {"bar", DEV_DANDA, DEV_DDANDA, "nl"}

\* re.split(r"[delims]+", t): the pieces between maximal runs of delimiters.
RECURSIVE SplitRuns(_, _, _, _)
SplitRuns(t, cur, inRun, acc) ==
    IF t = <<>> THEN Append(acc, cur)
    ELSE IF Head(t) \in SegmentDelims
         THEN IF inRun THEN SplitRuns(Tail(t), cur, TRUE, acc)
              ELSE SplitRuns(Tail(t), <<>>, TRUE, Append(acc, cur))
         ELSE SplitRuns(Tail(t), Append(cur, Head(t)), FALSE, acc)

RECURSIVE KeepNonEmptyStripped(_)
KeepNonEmptyStripped(parts) ==
    IF parts = <<>> THEN <<>>
    ELSE (IF Strip(Head(parts)) # <<>> THEN <<Strip(Head(parts))>> ELSE <<>>)
         \o KeepNonEmptyStripped(Tail(parts))

\* Variant: empty pieces are kept.
split_segments_keeping_empty(t) ==
    LET parts == SplitRuns(t, <<>>, FALSE, <<>>)
    IN  [k \in 1..Len(parts) |-> Strip(parts[k])]

split_segments(t) == KeepNonEmptyStripped(SplitRuns(t, <<>>, FALSE, <<>>))

detect_script(t, prefer) ==
    IF prefer \in {"devanagari", "latin"} THEN prefer
    ELSE IF \E j \in 1..Len(t) : t[j] \in DevBlock THEN "devanagari"
    ELSE "latin"

(***************************************************************************)
(* Syllables.                                                              *)
(***************************************************************************)
Syllable(onset_len, nucleus_char, intrinsic_long, has_mark, raw) ==
    [onset_len |-> onset_len, nucleus_char |-> nucleus_char,
     intrinsic_long |-> intrinsic_long, has_mark |-> has_mark,
     heavy |-> FALSE, raw |-> raw]

\* s[a:b] for 0 <= a <= b <= len(s).
Sub(t, a, b) == SubSeq(t, a + 1, b)

(***************************************************************************)
(* parse_dev_syllables: DevStep is one iteration of the loop at line 99.   *)
(***************************************************************************)
RECURSIVE SkipMarks(_, _)
SkipMarks(t, j) ==
    IF j < Len(t) /\ At(t, j) \in DEV_MARKS THEN SkipMarks(t, j + 1) ELSE j

RECURSIVE OnsetEnd(_, _)
OnsetEnd(t, j) ==
    IF (j + 2) < Len(t) /\ At(t, j + 1) = DEV_VIRAMA /\ At(t, j + 2) \in DEV_CONSONANTS
    THEN OnsetEnd(t, j + 2) ELSE j

RECURSIVE CodaEnd(_, _)
CodaEnd(t, j) ==
    IF j < Len(t) /\ At(t, j) = DEV_VIRAMA
    THEN IF j + 1 < Len(t) /\ At(t, j + 1) \in DEV_CONSONANTS
         THEN CodaEnd(t, j + 2) ELSE CodaEnd(t, j + 1)
    ELSE j

MarkLastHeavy(sylls) ==
    IF sylls = <<>> THEN sylls ELSE [sylls EXCEPT ![Len(sylls)].heavy = TRUE]

DevStep(t, st) ==
    LET i == st.i
        n == Len(t)
        ch == At(t, i)
    IN  IF ch \in {"sp", DEV_AVAGRAHA} THEN [i |-> i + 1, sylls |-> st.sylls]
        ELSE IF ch \in DEV_INDEP_VOWELS THEN
            LET j == SkipMarks(t, i + 1)
            IN  [i |-> j,
                 sylls |-> Append(st.sylls,
                              Syllable(0, <<ch>>, ch \in DEV_LONG_VOWELS, j > i + 1,
                                       Sub(t, i, j)))]
        ELSE IF ch \in DEV_CONSONANTS THEN
            LET jo == OnsetEnd(t, i)
                onset_len == 1 + ((jo - i) \div 2)
                j1 == jo + 1
                hasSign == j1 < n /\ At(t, j1) \in DEV_VOWEL_SIGNS
                nucleus == IF hasSign THEN At(t, j1) ELSE "dev_a"
                intrinsic_long == hasSign /\ nucleus \in DEV_LONG_SIGNS
                j2 == IF hasSign THEN j1 + 1 ELSE j1
                j3 == SkipMarks(t, j2)
            IN  IF j3 < n /\ At(t, j3) = DEV_VIRAMA
                THEN [i |-> CodaEnd(t, j3), sylls |-> MarkLastHeavy(st.sylls)]
                ELSE [i |-> j3,
                      sylls |-> Append(st.sylls,
                                   Syllable(onset_len, <<nucleus>>, intrinsic_long,
                                            j3 > j2, Sub(t, i, j3)))]
        ELSE IF ch \in DEV_MARKS THEN
            [i |-> i + 1,
             sylls |-> IF st.sylls = <<>> THEN st.sylls
                       ELSE [st.sylls EXCEPT ![Len(st.sylls)].has_mark = TRUE,
                                             ![Len(st.sylls)].raw = Append(@, ch)]]
        ELSE [i |-> i + 1, sylls |-> st.sylls]

RECURSIVE DevRun(_, _)
DevRun(t, st) == IF st.i < Len(t) THEN DevRun(t, DevStep(t, st)) ELSE st.sylls

parse_dev_syllables(t) == DevRun(t, [i |-> 0, sylls |-> <<>>])

(***************************************************************************)
(* parse_latin_syllables: LatinStep is one iteration of the loop at 223.   *)
(***************************************************************************)
is_vowel_start_latin(s, i) ==
    IF i >= Len(s) THEN 0
    ELSE IF i + 1 < Len(s) /\ LowerStr(Sub(s, i, i + 2)) \in LATIN_DIPHTHONGS THEN 2
    ELSE IF Lower(At(s, i)) \in LATIN_VOWEL_CHARS THEN 1
    ELSE 0

consume_consonant_unit(s, i) ==
    IF i >= Len(s) THEN i
    ELSE IF i + 1 < Len(s) /\ LowerStr(Sub(s, i, i + 2)) \in DIGRAPHS THEN i + 2
    ELSE i + 1

\* The onset loop, lines 234-243.
RECURSIVE OnsetScan(_, _, _)
OnsetScan(s, j, onset_len) ==
    IF j < Len(s) /\ is_vowel_start_latin(s, j) = 0
    THEN IF At(s, j) \in LATIN_ANUSVARA \/ At(s, j) \in LATIN_VISARGA
         THEN [j |-> j, onset_len |-> onset_len]
         ELSE IF IsAlpha(At(s, j)) \/ At(s, j) \in LATIN_ONSET_EXTRA
         THEN OnsetScan(s, consume_consonant_unit(s, j), onset_len + 1)
         ELSE [j |-> j, onset_len |-> onset_len]
    ELSE [j |-> j, onset_len |-> onset_len]

\* Variant: where no vowel follows, the index is left at the end of the onset
\* scan even when that scan consumed nothing.
LatinStepNoSkip(s, st) ==
    LET i == st.i
        n == Len(s)
        ch == At(s, i)
    IN  IF ch \in WhiteSpace \/ ch \in LATIN_SKIPPED_PUNCT
        THEN [i |-> i + 1, sylls |-> st.sylls]
        ELSE
            LET os == OnsetScan(s, i, 0)
                j == os.j
                vlen == is_vowel_start_latin(s, j)
            IN  IF vlen = 0
                THEN [i |-> j, sylls |-> st.sylls]
                ELSE
                    LET nucleus == Sub(s, j, j + vlen)
                        nucleus_low == LowerStr(nucleus)
                        intrinsic_long ==
                            \/ (Len(nucleus_low) = 1 /\ nucleus_low[1] \in LATIN_LONG)
                            \/ nucleus_low \in LATIN_DIPHTHONGS
                        k0 == j + vlen
                        cb == k0 < n /\ Sub(s, k0, Min2(k0 + 2, n)) \in LATIN_CHANDRABINDU
                        k1 == IF cb THEN k0 + 2 ELSE k0
                        an == k1 < n /\ At(s, k1) \in LATIN_ANUSVARA
                        k2 == IF an THEN k1 + 1 ELSE k1
                        vi == k2 < n /\ At(s, k2) \in LATIN_VISARGA
                        k == IF vi THEN k2 + 1 ELSE k2
                    IN  [i |-> k,
                         sylls |-> Append(st.sylls,
                                      Syllable(os.onset_len, nucleus, intrinsic_long,
                                               cb \/ an \/ vi, Sub(s, i, k)))]

LatinStep(s, st) ==
    LET i == st.i
        n == Len(s)
        ch == At(s, i)
    IN  IF ch \in WhiteSpace \/ ch \in LATIN_SKIPPED_PUNCT
        THEN [i |-> i + 1, sylls |-> st.sylls]
        ELSE
            LET os == OnsetScan(s, i, 0)
                j == os.j
                vlen == is_vowel_start_latin(s, j)
            IN  IF vlen = 0
                THEN [i |-> IF j = i THEN j + 1 ELSE j, sylls |-> st.sylls]
                ELSE
                    LET nucleus == Sub(s, j, j + vlen)
                        nucleus_low == LowerStr(nucleus)
                        intrinsic_long ==
                            \/ (Len(nucleus_low) = 1 /\ nucleus_low[1] \in LATIN_LONG)
                            \/ nucleus_low \in LATIN_DIPHTHONGS
                        k0 == j + vlen
                        cb == k0 < n /\ Sub(s, k0, Min2(k0 + 2, n)) \in LATIN_CHANDRABINDU
                        k1 == IF cb THEN k0 + 2 ELSE k0
                        an == k1 < n /\ At(s, k1) \in LATIN_ANUSVARA
                        k2 == IF an THEN k1 + 1 ELSE k1
                        vi == k2 < n /\ At(s, k2) \in LATIN_VISARGA
                        k == IF vi THEN k2 + 1 ELSE k2
                    IN  [i |-> k,
                         sylls |-> Append(st.sylls,
                                      Syllable(os.onset_len, nucleus, intrinsic_long,
                                               cb \/ an \/ vi, Sub(s, i, k)))]

RECURSIVE LatinRun(_, _)
LatinRun(s, st) == IF st.i < Len(s) THEN LatinRun(s, LatinStep(s, st)) ELSE st.sylls

parse_latin_syllables(s) == LatinRun(s, [i |-> 0, sylls |-> <<>>])

(***************************************************************************)
(* Prosodic logic and pada splitting.                                      *)
(***************************************************************************)
\* Variant: a heavy flag set by the scanner is kept.
finalize_heaviness_sticky(padas) ==
    [p \in 1..Len(padas) |->
        [idx \in 1..Len(padas[p]) |->
            LET syl == padas[p][idx]
                heavy == \/ syl.heavy
                         \/ syl.intrinsic_long
                         \/ syl.has_mark
                         \/ idx = Len(padas[p])
                         \/ padas[p][idx + 1].onset_len >= 2
            IN  [syl EXCEPT !.heavy = heavy]]]

finalize_heaviness(padas) ==
    [p \in 1..Len(padas) |->
        [idx \in 1..Len(padas[p]) |->
            LET syl == padas[p][idx]
                heavy == \/ syl.intrinsic_long
                         \/ syl.has_mark
                         \/ idx = Len(padas[p])
                         \/ padas[p][idx + 1].onset_len >= 2
            IN  [syl EXCEPT !.heavy = heavy]]]

syllable_pattern(pada) == [j \in 1..Len(pada) |-> IF pada[j].heavy THEN "G" ELSE "L"]

RECURSIVE SplitHalves(_)
SplitHalves(segs) ==
    IF segs = <<>> THEN <<>>
    ELSE LET seg == Head(segs)
             half == Len(seg) \div 2
         IN  <<Slice(seg, 0, half), Slice(seg, half, Len(seg))>> \o SplitHalves(Tail(segs))

\* Variant: the quarter is floor(n/4), not max(1, floor(n/4)).
guess_split_plain_quarter(segments_sylls) ==
    IF Len(segments_sylls) \in {3, 4} THEN segments_sylls
    ELSE IF Len(segments_sylls) = 2 THEN SplitHalves(segments_sylls)
    ELSE IF Len(segments_sylls) = 1 THEN
        LET seg == segments_sylls[1]
            n == Len(seg)
            q == n \div 4
        IN  IF n = 0 THEN <<seg>>
            ELSE <<Slice(seg, 0, q), Slice(seg, q, 2 * q), Slice(seg, 2 * q, 3 * q),
                   Slice(seg, 3 * q, n)>>
    ELSE segments_sylls

guess_split_into_padas(segments_sylls) ==
    IF Len(segments_sylls) \in {3, 4} THEN segments_sylls
    ELSE IF Len(segments_sylls) = 2 THEN SplitHalves(segments_sylls)
    ELSE IF Len(segments_sylls) = 1 THEN
        LET seg == segments_sylls[1]
            n == Len(seg)
            q == Max2(1, n \div 4)
        IN  IF n = 0 THEN <<seg>>
            ELSE <<Slice(seg, 0, q), Slice(seg, q, 2 * q), Slice(seg, 2 * q, 3 * q),
                   Slice(seg, 3 * q, n)>>
    ELSE segments_sylls

(***************************************************************************)
(* analyze_text, lines 455-475: the tier resolution and the result.        *)
(***************************************************************************)
NoResult == [note |-> "unset"]

Unset == <<>>

IdleScan == [s |-> <<>>, i |-> 0, sylls |-> <<>>]

(***************************************************************************)
(* analyze_text, lines 425-453, one action per stage.                      *)
(***************************************************************************)
Normalize ==
    /\ pc = "start"
    /\ norm' = normalize_text(text)
    /\ script' = detect_script(norm', prefer_script)
    /\ segments' = split_segments(norm')
    /\ pc' = "parse"
    /\ UNCHANGED <<text, prefer_script, seg_sylls, padas_sylls, padas_info,
                   padas_counts, result, scan, closest>>

Syllabify ==
    /\ pc = "parse"
    /\ seg_sylls' = [k \in 1..Len(segments) |->
                        IF script = "devanagari" THEN parse_dev_syllables(segments[k])
                        ELSE parse_latin_syllables(segments[k])]
    /\ pc' = "split"
    /\ UNCHANGED <<text, prefer_script, norm, script, segments, padas_sylls,
                   padas_info, padas_counts, result, scan, closest>>

GuessPadas ==
    /\ pc = "split"
    /\ padas_sylls' = guess_split_into_padas(seg_sylls)
    /\ pc' = "weigh"
    /\ UNCHANGED <<text, prefer_script, norm, script, segments, seg_sylls,
                   padas_info, padas_counts, result, scan, closest>>

Finalize ==
    /\ pc = "weigh"
    /\ padas_sylls' = finalize_heaviness(padas_sylls)
    /\ pc' = "count"
    /\ UNCHANGED <<text, prefer_script, norm, script, segments, seg_sylls,
                   padas_info, padas_counts, result, scan, closest>>

BuildCounts ==
    /\ pc = "count"
    /\ padas_counts' = [p \in 1..Len(padas_sylls) |-> Len(padas_sylls[p])]
    /\ padas_info' = [p \in 1..Len(padas_sylls) |->
                         [count |-> Len(padas_sylls[p]),
                          pattern |-> syllable_pattern(padas_sylls[p])]]
    /\ pc' = "identify"
    /\ UNCHANGED <<text, prefer_script, norm, script, segments, seg_sylls,
                   padas_sylls, result, scan, closest>>

(***************************************************************************)
(* Direct calls of the two scanners, one action per loop iteration.        *)
(***************************************************************************)
DevScanStep ==
    /\ pc = "scan_dev"
    /\ scan.i < Len(scan.s)
    /\ scan' = [s |-> scan.s] @@ DevStep(scan.s, [i |-> scan.i, sylls |-> scan.sylls])
    /\ UNCHANGED <<pc, text, prefer_script, norm, script, segments, seg_sylls,
                   padas_sylls, padas_info, padas_counts, result, closest>>

LatinScanStep ==
    /\ pc = "scan_latin"
    /\ scan.i < Len(scan.s)
    /\ scan' = [s |-> scan.s] @@ LatinStep(scan.s, [i |-> scan.i, sylls |-> scan.sylls])
    /\ UNCHANGED <<pc, text, prefer_script, norm, script, segments, seg_sylls,
                   padas_sylls, padas_info, padas_counts, result, closest>>

ScanReturn ==
    /\ pc \in {"scan_dev", "scan_latin"}
    /\ scan.i >= Len(scan.s)
    /\ pc' = "scanned"
    /\ UNCHANGED <<text, prefer_script, norm, script, segments, seg_sylls,
                   padas_sylls, padas_info, padas_counts, result, scan, closest>>

Identify ==
    /\ pc = "identify"
    /\ \E tie \in {0, 1} :
         LET exact == identify_saptachandas(padas_counts, 0, tie)
             tolerant == IF Truthy(exact) THEN None
                         ELSE identify_saptachandas(padas_counts, 1, tie)
             best == IF Truthy(exact) THEN exact
                     ELSE IF Truthy(tolerant) THEN tolerant
                     ELSE best_meter_match(padas_counts, tie)
             guess == IF FORCE_CONFIDENCE_ALWAYS_ONE
                      THEN [best EXCEPT !.confidence = 100] ELSE best
         IN  result' = [script |-> script,
                        input_segments |-> Len(segments),
                        padas |-> padas_info,
                        pada_counts |-> padas_counts,
                        guess |-> guess,
                        note |-> IF Truthy(exact) /\ best = exact
                                 THEN "Exact Sapta-chandas match"
                                 ELSE IF Truthy(tolerant) /\ best = tolerant
                                 THEN "Within +-1 tolerance"
                                 ELSE "Closest based on counts; may be approximate"]
    /\ pc' = "done"
    /\ UNCHANGED <<text, prefer_script, norm, script, segments, seg_sylls,
                   padas_sylls, padas_info, padas_counts, scan, closest>>

\* A direct call of best_meter_match on a list of counts.
CallBestMeterMatch ==
    /\ pc = "call_best"
    /\ \E tie \in {0, 1} : closest' = best_meter_match(padas_counts, tie)
    /\ pc' = "returned"
    /\ UNCHANGED <<text, prefer_script, norm, script, segments, seg_sylls,
                   padas_sylls, padas_info, padas_counts, result, scan>>

(***************************************************************************)
(* The matcher on lists of per-pada counts.  A count is either within 1 of *)
(* some template's target length or far from all of them.                  *)
(***************************************************************************)
TargetLens == {CHANDAS_SAPT[c].syllables_per_pada : c \in 1..Len(CHANDAS_SAPT)}

MinTarget == CHOOSE m \in TargetLens : \A x \in TargetLens : m <= x

MaxTarget == CHOOSE m \in TargetLens : \A x \in TargetLens : m >= x

MaxTemplatePadas == CHOOSE m \in {CHANDAS_SAPT[c].padas : c \in 1..Len(CHANDAS_SAPT)} :
                        \A c \in 1..Len(CHANDAS_SAPT) : m >= CHANDAS_SAPT[c].padas

\* 0 is the count of a degenerate pada; the others are within 1 of a target.
CountValues == {0} \cup ((MinTarget - 1)..(MaxTarget + 1))

\* Padas beyond the longest template: further lines of MinTarget + 1 syllables.
ExtraPadas == SeqsUpTo({MinTarget + 1}, MaxExtraPadas) \ {<<>>}

CountLists ==
    LET short == SeqsUpTo(CountValues, MaxTemplatePadas)
    IN  short \cup {b \o e : b \in {q \in short : Len(q) = MaxTemplatePadas},
                              e \in ExtraPadas}

\* guess_split_into_padas never yields two padas, and yields one pada only
\* when that pada is empty.
ReachableCounts(c) == Len(c) \notin {1, 2} \/ c = <<0>>

AllHeavy(c) == [count |-> c, pattern |-> Repeat("G", c)]

InitMatch ==
    /\ padas_counts \in CountLists
    /\ \/ pc = "identify" /\ ReachableCounts(padas_counts)
       \/ pc = "call_best"
    /\ padas_info = [j \in 1..Len(padas_counts) |-> AllHeavy(padas_counts[j])]
    /\ text = Unset /\ prefer_script = "auto" /\ norm = Unset
    /\ script = "devanagari"
    /\ segments = Repeat(Unset, Len(padas_counts))
    /\ seg_sylls = Unset /\ padas_sylls = Unset
    /\ result = NoResult /\ closest = None /\ scan = IdleScan

NextMatch == Identify \/ CallBestMeterMatch

SpecMatch == InitMatch /\ [][NextMatch]_vars

(***************************************************************************)
(* Properties of the meter matcher.                                        *)
(***************************************************************************)
Templates == 1..Len(CHANDAS_SAPT)

Deviation(c, counts, j) == Abs(counts[j] - CHANDAS_SAPT[c].syllables_per_pada)

SamePadas(c, counts) == Len(counts) = CHANDAS_SAPT[c].padas

ExactFor(c, counts) ==
    SamePadas(c, counts) /\ \A j \in 1..Len(counts) : Deviation(c, counts, j) = 0

Within1For(c, counts) ==
    SamePadas(c, counts) /\ \A j \in 1..Len(counts) : Deviation(c, counts, j) <= 1

DevPair(c, counts) ==
    << MaxSeq([j \in 1..Len(counts) |-> Deviation(c, counts, j)]),
       SumSeq([j \in 1..Len(counts) |-> Deviation(c, counts, j)]) >>

PairLeq(a, b) == a[1] < b[1] \/ (a[1] = b[1] /\ a[2] <= b[2])

\* C1: whenever some template has the input's pada count and every pada's count
\* equals its target length, analyze_text reports the exact tier, that template
\* and confidence 1.0 (never a tolerant or closest result).
C1_ExactWins ==
    pc = "done" =>
        \A c \in Templates :
            ExactFor(c, padas_counts) =>
                /\ result.guess.match_type = "exact"
                /\ result.guess.name = CHANDAS_SAPT[c].name
                /\ result.guess.confidence = 100

C1_Witness ==
    /\ pc = "done"
    /\ \E c \in Templates : ExactFor(c, padas_counts) /\ CHANDAS_SAPT[c].padas = 3
    /\ result.guess.match_type = "exact"

\* C2: the confidence of every result of analyze_text lies in [0.1, 1.0] when
\* the tier is tolerant or closest and is exactly 1.0 when the tier is exact;
\* this includes the empty list of counts and lists containing zeros.
C2_ConfidenceBounds ==
    pc = "done" =>
        /\ result.guess.match_type \in {"exact", "tolerant(+-1)", "closest"}
        /\ result.guess.match_type = "exact" => result.guess.confidence = 100
        /\ result.guess.match_type # "exact" =>
               (10 <= result.guess.confidence /\ result.guess.confidence <= 100)

C2_Witness ==
    /\ pc = "done"
    /\ \E j \in 1..Len(padas_counts) : padas_counts[j] = 0
    /\ Len(padas_counts) = 4
    /\ result.guess.match_type = "closest"
    /\ result.guess.confidence = 10

\* C6: when no template matches exactly but some template with the input's pada
\* count has every deviation at most 1, analyze_text reports the tolerant tier,
\* the chosen template qualifies and has the smallest (max deviation, sum of
\* deviations) pair among the qualifying ones, and the confidence is strictly
\* between 0.1 and 1.0.
C6_TolerantTier ==
    pc = "done" =>
        ( ( /\ \A c \in Templates : ~ExactFor(c, padas_counts)
            /\ \E c \in Templates : Within1For(c, padas_counts) )
          =>
          /\ result.guess.match_type = "tolerant(+-1)"
          /\ \E c \in Templates :
                /\ CHANDAS_SAPT[c].name = result.guess.name
                /\ Within1For(c, padas_counts)
                /\ \A d \in Templates :
                      Within1For(d, padas_counts) =>
                          PairLeq(DevPair(c, padas_counts), DevPair(d, padas_counts))
          /\ 10 < result.guess.confidence
          /\ result.guess.confidence < 100 )

\* Two templates qualify with different sums; the later one in the table wins.
C6_Witness ==
    /\ pc = "done"
    /\ padas_counts = <<9, 9, 8, 9>>
    /\ result.guess.match_type = "tolerant(+-1)"
    /\ result.guess.name = "Brihati"

\* C10: best_meter_match returns the template that minimises
\* 4 * |pada-count difference| + sum over the overlapping prefix of
\* |count - target length| + target length * (padas the template requires
\* beyond the input's); among templates of equal score, the earliest in the table.
ClaimScore(c, counts) ==
    LET tp == CHANDAS_SAPT[c].padas
        tl == CHANDAS_SAPT[c].syllables_per_pada
        k == Min2(Len(counts), tp)
    IN  4 * Abs(Len(counts) - tp)
        + SumSeq([j \in 1..k |-> Abs(counts[j] - tl)])
        + tl * Max2(0, tp - Len(counts))

C10_ClosestMinimisesScore ==
    pc = "returned" =>
        \E c \in Templates :
            /\ closest.name = CHANDAS_SAPT[c].name
            /\ closest.match_type = "closest"
            /\ \A d \in Templates :
                  /\ ClaimScore(c, padas_counts) <= ClaimScore(d, padas_counts)
                  /\ d < c => ClaimScore(c, padas_counts) < ClaimScore(d, padas_counts)

\* Ushnih and Anushtubh tie on a five-pada input; the earlier one is returned.
C10_Witness ==
    /\ pc = "returned"
    /\ Len(padas_counts) = 5
    /\ ClaimScore(2, padas_counts) = ClaimScore(3, padas_counts)
    /\ \A d \in Templates : ClaimScore(2, padas_counts) <= ClaimScore(d, padas_counts)
    /\ closest.name = "Ushnih"

\* C12 (toggle off): a result of analyze_text whose match tier is closest has
\* confidence strictly less than 1.0, for every list of pada counts, longer
\* than every template included.
C12_ClosestBelowOne ==
    (pc = "done" /\ ~FORCE_CONFIDENCE_ALWAYS_ONE /\ result.guess.match_type = "closest") =>
        result.guess.confidence < 100

(***************************************************************************)
(* The module's entry points on bounded text: analyze_text and the two     *)
(* scanners.                                                               *)
(***************************************************************************)
TextChars == {"sp", "nl", "comma", "us", "bar", "danda", "ddanda", "om", "a", "ka"}

DevScanChars == {"sp", "dev_a", "ka", "virama", "sign_aa", "anusvara", "danda"}

LatinScanChars == {"sp", "a", "i", "A_up", "k", "h", "m", "cbindu", "mdot", "hdot"}

InitAnalyze ==
    /\ pc = "start"
    /\ text \in SeqsUpTo(TextChars, MaxText)
    /\ prefer_script \in {"auto", "devanagari", "latin"}
    /\ scan = IdleScan

InitScan ==
    /\ \/ pc = "scan_dev" /\ \E s \in SeqsUpTo(DevScanChars, MaxScan) :
                                scan = [s |-> s, i |-> 0, sylls |-> <<>>]
       \/ pc = "scan_latin" /\ \E s \in SeqsUpTo(LatinScanChars, MaxScan) :
                                  scan = [s |-> s, i |-> 0, sylls |-> <<>>]
    /\ text = Unset /\ prefer_script = "auto"

Init ==
    /\ InitAnalyze \/ InitScan
    /\ norm = Unset /\ script = "unset" /\ segments = Unset
    /\ seg_sylls = Unset /\ padas_sylls = Unset /\ padas_info = Unset
    /\ padas_counts = Unset /\ result = NoResult /\ closest = None

Next ==
    \/ Normalize \/ Syllabify \/ GuessPadas \/ Finalize \/ BuildCounts \/ Identify
    \/ DevScanStep \/ LatinScanStep \/ ScanReturn

Spec == Init /\ [][Next]_vars

(***************************************************************************)
(* Properties of the entry points on text.                                 *)
(***************************************************************************)
ResultFields == {"script", "input_segments", "padas", "pada_counts", "guess", "note"}

\* C3: both scanners terminate on every string without a fault: wherever a scan
\* stands before the end of its string, the next iteration of the loop strictly
\* advances the read index and does not move it past the end, so the scan
\* returns with the index at the end; and analyze_text returns a result with
\* all six fields.
C3_ScannersTerminate ==
    /\ pc \in {"scan_dev", "scan_latin"} => scan.i <= Len(scan.s)
    /\ (pc = "scan_dev" /\ scan.i < Len(scan.s)) =>
           LET nxt == DevStep(scan.s, [i |-> scan.i, sylls |-> scan.sylls])
           IN  scan.i < nxt.i /\ nxt.i <= Len(scan.s)
    /\ (pc = "scan_latin" /\ scan.i < Len(scan.s)) =>
           LET nxt == LatinStep(scan.s, [i |-> scan.i, sylls |-> scan.sylls])
           IN  scan.i < nxt.i /\ nxt.i <= Len(scan.s)
    /\ pc = "scanned" => scan.i = Len(scan.s)
    /\ pc = "done" => DOMAIN result = ResultFields

\* A string of characters neither scanner recognises is scanned to its end.
C3_Witness ==
    /\ pc = "scanned"
    /\ Len(scan.s) >= 3
    /\ \A j \in 1..Len(scan.s) : scan.s[j] \in {"cbindu", "danda", "virama"}
    /\ scan.i = Len(scan.s)
    /\ scan.sylls = <<>>

AllWhiteSpace(t) == \A j \in 1..Len(t) : t[j] \in WhiteSpace

\* C4: on the empty string or an all-whitespace string analyze_text returns a
\* result with zero segments, zero padas, the closest tier and confidence 0.1.
C4_EmptyInput ==
    (pc = "done" /\ AllWhiteSpace(text)) =>
        /\ result.input_segments = 0
        /\ result.padas = <<>>
        /\ result.pada_counts = <<>>
        /\ result.guess.match_type = "closest"
        /\ result.guess.confidence = 10

C4_Witness ==
    /\ pc = "done"
    /\ text = <<"sp", "nl", "sp">>
    /\ result.input_segments = 0
    /\ result.guess.confidence = 10

\* The lines of a raw text: the pieces between maximal runs of line breaks.
RECURSIVE RawLines(_, _, _)
RawLines(t, cur, acc) ==
    IF t = <<>> THEN Append(acc, cur)
    ELSE IF Head(t) = "nl"
         THEN IF cur = <<>> THEN RawLines(Tail(t), cur, acc)
              ELSE RawLines(Tail(t), <<>>, Append(acc, cur))
         ELSE RawLines(Tail(t), Append(cur, Head(t)), acc)

\* k >= 1 nonempty lines of letters separated by line breaks, no verse delimiter.
LinesOfLetters(t) ==
    /\ t # <<>>
    /\ \A j \in 1..Len(t) : t[j] \in {"a", "ka", "nl"}
    /\ t[1] # "nl" /\ t[Len(t)] # "nl"

\* C5: for an input of k nonempty lines separated by one or more line breaks,
\* without verse delimiters, normalize_text then split_segments yields exactly
\* the k lines in order, and the reported segment count is k.
C5_LinesAreSegments ==
    LinesOfLetters(text) =>
        /\ pc \in {"parse", "split", "weigh", "count", "identify"} =>
               segments = RawLines(text, <<>>, <<>>)
        /\ pc = "done" => result.input_segments = Len(RawLines(text, <<>>, <<>>))

Segmented == pc \in {"parse", "split", "weigh", "count", "identify", "done"}

\* C11 as stated: if normalize_text followed by split_segments yields zero
\* segments, the raw input is empty or consists only of whitespace.
C11_ZeroSegmentsOnlyBlank ==
    (Segmented /\ segments = <<>>) => AllWhiteSpace(text)

\* The characters that leave nothing in a segment: whitespace, the characters
\* normalize_text turns into a space (stripped characters and the underscore)
\* and the delimiters split_segments splits on.
NoContent ==
    WhiteSpace \cup Disallowed \cup {"us"} \cup {"bar", DEV_DANDA, DEV_DDANDA}

\* C11, amended: normalize_text followed by split_segments yields zero segments
\* exactly when every character of the raw input is whitespace, an underscore,
\* a stripped character or a verse delimiter; blank input is one such case.
C11_ZeroSegments ==
    Segmented => (segments = <<>> <=> \A j \in 1..Len(text) : text[j] \in NoContent)

\* A delimiter-only input with an underscore and a comma yields zero segments.
C11_Witness ==
    /\ pc = "done"
    /\ text = <<"ddanda", "us", "comma">>
    /\ segments = <<>>
    /\ result.input_segments = 0


(***************************************************************************)
(* analyze_text on verses spelled syllable by syllable.  A syllable is     *)
(* described by its onset size, vowel length, trailing mark and whether a  *)
(* closing consonant (consonant + virama) follows it.                      *)
(***************************************************************************)
SyllableKinds ==
    [onset : 0..MaxOnset, long : BOOLEAN, mark : BOOLEAN, coda : BOOLEAN]

SimpleKinds ==
    {[onset |-> 1, long |-> l, mark |-> FALSE, coda |-> FALSE] : l \in BOOLEAN}

RECURSIVE Conjunct(_)
Conjunct(k) == IF k = 1 THEN <<"ka">> ELSE <<"ka", "virama">> \o Conjunct(k - 1)

SpellSyllable(d) ==
    (IF d.onset = 0 THEN (IF d.long THEN <<"dev_o">> ELSE <<"dev_a">>)
     ELSE Conjunct(d.onset) \o (IF d.long THEN <<"sign_aa">> ELSE <<>>))
    \o (IF d.mark THEN <<"anusvara">> ELSE <<>>)
    \o (IF d.coda THEN <<"ka", "virama">> ELSE <<>>)

\* A closing consonant is kept apart from the next syllable by a space.
RECURSIVE SpellLine(_)
SpellLine(ds) ==
    IF ds = <<>> THEN <<>>
    ELSE SpellSyllable(Head(ds))
         \o (IF Head(ds).coda /\ Len(ds) > 1 THEN <<"sp">> ELSE <<>>)
         \o SpellLine(Tail(ds))

RECURSIVE JoinLines(_)
JoinLines(lines) ==
    IF Len(lines) = 1 THEN lines[1]
    ELSE lines[1] \o <<DEV_DANDA>> \o JoinLines(Tail(lines))

FreeLines == {SpellLine(ds) : ds \in SeqsUpTo(SyllableKinds, MaxPadaLen) \ {<<>>}}

VerseTexts ==
    \* one line of simple syllables, or a line without any syllable
    {SpellLine(ds) : ds \in SeqsUpTo(SimpleKinds, MaxLineSylls) \ {<<>>}}
    \cup {<<"dev_digit">>}
    \* two and three lines: a free first line, then lines of one light syllable
    \cup {JoinLines(<<l, <<"ka">>>>) : l \in FreeLines}
    \cup {JoinLines(<<l, <<"ka">>, <<"ka">>>>) : l \in FreeLines}

InitVerse ==
    /\ pc = "start"
    /\ text \in VerseTexts
    /\ prefer_script = "auto"
    /\ scan = IdleScan
    /\ norm = Unset /\ script = "unset" /\ segments = Unset
    /\ seg_sylls = Unset /\ padas_sylls = Unset /\ padas_info = Unset
    /\ padas_counts = Unset /\ result = NoResult /\ closest = None

NextAnalyze ==
    Normalize \/ Syllabify \/ GuessPadas \/ Finalize \/ BuildCounts \/ Identify

SpecVerse == InitVerse /\ [][NextAnalyze]_vars

(***************************************************************************)
(* Properties of pada splitting and syllable weight.                       *)
(***************************************************************************)
\* C7 as claimed: a single segment of n >= 1 syllables is cut at floor(n/4),
\* 2*floor(n/4) and 3*floor(n/4); for n = 0 one empty pada is returned.
C7_QuarterSplitFloor ==
    (pc = "weigh" /\ Len(seg_sylls) = 1) =>
        LET seg == seg_sylls[1]
            n == Len(seg)
            f == n \div 4
        IN  IF n = 0 THEN padas_sylls = << <<>> >>
            ELSE padas_sylls = <<SubSeq(seg, 1, f), SubSeq(seg, f + 1, 2 * f),
                                 SubSeq(seg, 2 * f + 1, 3 * f), SubSeq(seg, 3 * f + 1, n)>>

\* C7 (amended): a single segment of n >= 1 syllables is cut into exactly four
\* padas at q, 2q and 3q with q = max(1, floor(n/4)), a cut beyond the end
\* leaving an empty pada; so for n >= 4 the first three padas hold floor(n/4)
\* syllables each and the fourth the remaining n - 3*floor(n/4), and for n < 4 the
\* first n padas hold one syllable each; for n = 0 one empty pada is returned.
C7_QuarterSplit ==
    (pc = "weigh" /\ Len(seg_sylls) = 1) =>
        LET seg == seg_sylls[1]
            n == Len(seg)
            q == IF n < 4 THEN 1 ELSE n \div 4
        IN  IF n = 0 THEN padas_sylls = << <<>> >>
            ELSE /\ Len(padas_sylls) = 4
                 /\ \A m \in 1..3 :
                       padas_sylls[m] = SubSeq(seg, (m - 1) * q + 1, Min2(m * q, n))
                 /\ padas_sylls[4] = SubSeq(seg, 3 * q + 1, n)
                 /\ n >= 4 => /\ \A m \in 1..3 : Len(padas_sylls[m]) = n \div 4
                              /\ Len(padas_sylls[4]) = n - 3 * (n \div 4)
                 /\ n < 4 => \A m \in 1..4 :
                                Len(padas_sylls[m]) = (IF m <= n THEN 1 ELSE 0)

C7_Witness ==
    /\ pc = "weigh"
    /\ Len(seg_sylls) = 1
    /\ Len(seg_sylls[1]) = 9
    /\ Len(padas_sylls) = 4
    /\ Len(padas_sylls[4]) = 3

Weighed == pc \in {"count", "identify", "done"}

RECURSIVE Flatten(_)
Flatten(qs) == IF qs = <<>> THEN <<>> ELSE Head(qs) \o Flatten(Tail(qs))

\* C9: a syllable that parse_dev_syllables marks heavy because a closing
\* consonant follows it is heavy in the final weight pattern of analyze_text,
\* wherever it sits in its pada.
C9_CodaHeavyPersists ==
    pc = "done" =>
        LET parsed == Flatten(seg_sylls)
            pattern == Flatten([p \in 1..Len(result.padas) |-> result.padas[p].pattern])
        IN  /\ Len(pattern) = Len(parsed)
            /\ \A k \in 1..Len(parsed) : parsed[k].heavy => pattern[k] = "G"


=============================================================================
